---- MODULE Spec2Model ----
(***************************************************************************)
(* CustomSystem (quantum_systems/custom_system.py): a container of the     *)
(* tensors h, u, s, dipole_moment and the nuclear repulsion energy of a    *)
(* many-electron system with n particles and l spin-orbitals, its setters, *)
(* and the three builders that fill one from an integral package.          *)
(*                                                                         *)
(* A tensor is a record [shape, data]: shape is the sequence of its axis   *)
(* lengths, data maps every 0-based index tuple to an integer element.     *)
(***************************************************************************)
EXTENDS Integers, Sequences, FiniteSets, TLC

VARIABLES
    n,                         \* QuantumSystem.n
    l,                         \* QuantumSystem.l
    h,                         \* CustomSystem._h
    u,                         \* CustomSystem._u
    s,                         \* CustomSystem._s
    dipole_moment,             \* CustomSystem._dipole_moment
    nuclear_repulsion_energy,  \* CustomSystem._nuclear_repulsion_energy
    dtype,                     \* element type of the stored tensors
    last,                      \* the last setter call: name, arguments, outcome
    pc,                        \* position of the running builder
    loc                        \* the running builder's local variables

vars == <<n, l, h, u, s, dipole_moment, nuclear_repulsion_energy, dtype,
          last, pc, loc>>

----------------------------------------------------------------------------
\* Bounds of the model.

\* input tensors have axes of length 1..MaxDim
MaxDim == 3
\* cubic input tensors have dimension 1..MaxCube
MaxCube == 2
\* the system has l = 2*m spin-orbitals for a spatial dimension m in 1..MaxM
MaxM == 1
\* the particle number n ranges over 1..MaxN
MaxN == 1
\* nuclear repulsion energies range over 0..MaxNre
MaxNre == 0
\* the integral packages return nao in 1..MaxNao atomic orbitals
MaxNao == 2

\* number of Cartesian components of the dipole integrals
NCart == 3

----------------------------------------------------------------------------
\* Dense arrays.

\* an attribute that was never set
None == [isnone |-> TRUE]

IsSet(t) == "shape" \in DOMAIN t

\* index tuples of an array of the given shape (ranks 1 to 4)
Idx(shape) ==
    CASE Len(shape) = 1 -> {<<i>> : i \in 0..(shape[1] - 1)}
      [] Len(shape) = 2 -> (0..(shape[1] - 1)) \X (0..(shape[2] - 1))
      [] Len(shape) = 3 ->
            (0..(shape[1] - 1)) \X (0..(shape[2] - 1)) \X (0..(shape[3] - 1))
      [] Len(shape) = 4 ->
            (0..(shape[1] - 1)) \X (0..(shape[2] - 1))
                \X (0..(shape[3] - 1)) \X (0..(shape[4] - 1))

Rank(t) == Len(t.shape)

\* np.array([t]): a new leading axis of length 1
Promote(t) ==
    LET shape == <<1>> \o t.shape
    IN  [shape |-> shape, data |-> [i \in Idx(shape) |-> t.data[Tail(i)]]]

\* t[i] for an array of rank 3: the i-th matrix
Component(t, i) ==
    LET shape == Tail(t.shape)
    IN  [shape |-> shape, data |-> [j \in Idx(shape) |-> t.data[<<i>> \o j]]]

\* u.transpose(0, 2, 1, 3)
Transpose0213(t) ==
    LET shape == <<t.shape[1], t.shape[3], t.shape[2], t.shape[4]>>
    IN  [shape |-> shape,
         data |-> [i \in Idx(shape) |-> t.data[<<i[1], i[3], i[2], i[4]>>]]]

\* -t, elementwise
Negate(t) == [shape |-> t.shape, data |-> [i \in Idx(t.shape) |-> 0 - t.data[i]]]

----------------------------------------------------------------------------
\* quantum_systems.system_helper

\* one-body spin expansion: two diagonal blocks equal to the input, zero
\* off-diagonal blocks
add_spin_one_body(t) ==
    LET a == t.shape[1]
        b == t.shape[2]
        shape == <<2 * a, 2 * b>>
    IN  [shape |-> shape,
         data |-> [i \in Idx(shape) |->
                     IF i[1] \div a = i[2] \div b
                     THEN t.data[<<i[1] % a, i[2] % b>>]
                     ELSE 0]]

\* two-body spin expansion in physicist's notation <pq|rs>: the spin of p
\* must match that of r and the spin of q that of s
add_spin_two_body(t) ==
    LET d == t.shape
        shape == <<2 * d[1], 2 * d[2], 2 * d[3], 2 * d[4]>>
    IN  [shape |-> shape,
         data |-> [i \in Idx(shape) |->
                     IF /\ i[1] \div d[1] = i[3] \div d[3]
                        /\ i[2] \div d[2] = i[4] \div d[4]
                     THEN t.data[<<i[1] % d[1], i[2] % d[2],
                                   i[3] % d[3], i[4] % d[4]>>]
                     ELSE 0]]

\* U_anti[p,q,r,s] = U[p,q,r,s] - U[p,q,s,r]
anti_symmetrize_u(t) ==
    LET d == t.shape
        shape == <<d[1], d[2], d[3], d[4]>>
    IN  [shape |-> shape,
         data |-> [i \in Idx(shape) |->
                     t.data[i] - t.data[<<i[1], i[2], i[4], i[3]>>]]]

----------------------------------------------------------------------------
\* CustomSystem: the setters as functions of the system's l, the attribute's
\* previous value and the arguments. The result is [raised, value]: whether the
\* call raised, and the attribute's value after the call.

\* all(self.l == axis for axis in shape)
ShapeMatches(self_l, shape) == \A k \in 1..Len(shape) : self_l = shape[k]

\* set_h checking the last axis only
set_h_last_axis_only(self_l, prev, t, add_spin) ==
    LET t1 == IF add_spin THEN add_spin_one_body(t) ELSE t
    IN  IF self_l = t1.shape[Len(t1.shape)]
        THEN [raised |-> FALSE, value |-> t1]
        ELSE [raised |-> TRUE, value |-> prev]

set_h(self_l, prev, t, add_spin) ==
    LET t1 == IF add_spin THEN add_spin_one_body(t) ELSE t
    IN  IF ShapeMatches(self_l, t1.shape)
        THEN [raised |-> FALSE, value |-> t1]
        ELSE [raised |-> TRUE, value |-> prev]

\* set_u antisymmetrizing before the spin expansion
set_u_antisymmetrize_first(self_l, prev, t, add_spin, anti_symmetrize) ==
    LET t1 == IF anti_symmetrize THEN anti_symmetrize_u(t) ELSE t
        t2 == IF add_spin THEN add_spin_two_body(t1) ELSE t1
    IN  IF ShapeMatches(self_l, t2.shape)
        THEN [raised |-> FALSE, value |-> t2]
        ELSE [raised |-> TRUE, value |-> prev]

\* set_u ignoring anti_symmetrize
set_u_no_antisymmetrize(self_l, prev, t, add_spin, anti_symmetrize) ==
    LET t1 == IF add_spin THEN add_spin_two_body(t) ELSE t
    IN  IF ShapeMatches(self_l, t1.shape)
        THEN [raised |-> FALSE, value |-> t1]
        ELSE [raised |-> TRUE, value |-> prev]

set_u(self_l, prev, t, add_spin, anti_symmetrize) ==
    LET t1 == IF add_spin THEN add_spin_two_body(t) ELSE t
        t2 == IF anti_symmetrize THEN anti_symmetrize_u(t1) ELSE t1
    IN  IF ShapeMatches(self_l, t2.shape)
        THEN [raised |-> FALSE, value |-> t2]
        ELSE [raised |-> TRUE, value |-> prev]

set_s(self_l, prev, t, add_spin) ==
    LET t1 == IF add_spin THEN add_spin_one_body(t) ELSE t
    IN  IF ShapeMatches(self_l, t1.shape)
        THEN [raised |-> FALSE, value |-> t1]
        ELSE [raised |-> TRUE, value |-> prev]

\* set_dipole_moment without the promotion of a matrix to rank 3: the matrix
\* is stored as it is, and its rows cannot be spin-expanded
set_dipole_moment_no_promotion(self_l, prev, t, add_spin) ==
    IF ~add_spin
    THEN [raised |-> FALSE, value |-> t]
    ELSE IF Rank(t) < 3
    THEN [raised |-> TRUE, value |-> prev]
    ELSE LET new_shape == <<t.shape[1], 2 * t.shape[2], 2 * t.shape[3]>>
         IN  IF ShapeMatches(self_l, Tail(new_shape))
             THEN [raised |-> FALSE,
                   value |-> [shape |-> new_shape,
                              data |-> [i \in Idx(new_shape) |->
                                 add_spin_one_body(Component(t, i[1])).data[Tail(i)]]]]
             ELSE [raised |-> TRUE, value |-> prev]

set_dipole_moment(self_l, prev, t, add_spin) ==
    LET dm == IF Rank(t) < 3 THEN Promote(t) ELSE t
        new_shape == <<dm.shape[1], 2 * dm.shape[2], 2 * dm.shape[3]>>
    IN  IF ~add_spin
        THEN [raised |-> FALSE, value |-> dm]
        ELSE IF ShapeMatches(self_l, Tail(new_shape))
        THEN [raised |-> FALSE,
              value |-> [shape |-> new_shape,
                         data |-> [i \in Idx(new_shape) |->
                            add_spin_one_body(Component(dm, i[1])).data[Tail(i)]]]]
        ELSE [raised |-> TRUE, value |-> prev]

set_nuclear_repulsion_energy(e) == [raised |-> FALSE, value |-> [value |-> e]]

Call(op, arg, add_spin, anti_symmetrize, r) ==
    [op |-> op, arg |-> arg, add_spin |-> add_spin,
     anti_symmetrize |-> anti_symmetrize, raised |-> r.raised]

----------------------------------------------------------------------------
\* Arguments of the setter calls.

Uniform(r, d) == [k \in 1..r |-> d]
\* all axes d but the first, which is d + 1
Skew(r, d) == [k \in 1..r |-> IF k = 1 THEN d + 1 ELSE d]
Shapes(r) ==
    {Uniform(r, d) : d \in 1..MaxDim} \cup {Skew(r, d) : d \in 1..(MaxDim - 1)}

RECURSIVE Enc(_, _)
Enc(i, shape) ==
    IF Len(i) = 0 THEN 0 ELSE i[1] + shape[1] * Enc(Tail(i), Tail(shape))

\* an array whose elements are all different and nonzero
Ramp(shape) ==
    [shape |-> shape, data |-> [i \in Idx(shape) |-> 1 + Enc(i, shape)]]

\* rank 4, dimension 2, U[0,0,0,0] = U[0,0,1,1] = 5 and 0 elsewhere
ScenarioC ==
    [shape |-> <<2, 2, 2, 2>>,
     data |-> [i \in Idx(<<2, 2, 2, 2>>) |->
                 IF i = <<0, 0, 0, 0>> \/ i = <<0, 0, 1, 1>> THEN 5 ELSE 0]]

\* arguments of every shape, cubic or not
OneBodyInputs == {Ramp(sh) : sh \in Shapes(2)}
TwoBodyInputs == {Ramp(sh) : sh \in Shapes(4)} \cup {ScenarioC}

\* arguments of cubic shape only
OneBodyCubes == {Ramp(Uniform(2, d)) : d \in 1..MaxCube}
TwoBodyCubes == {Ramp(Uniform(4, d)) : d \in 1..MaxCube}
\* dipole integrals: one matrix, or NCart of them
DipoleCubes ==
    OneBodyCubes \cup {Ramp(<<NCart>> \o Uniform(2, d)) : d \in 1..MaxCube}

----------------------------------------------------------------------------
\* A CustomSystem(n, l) and any sequence of setter calls on it.

NoCall == [op |-> "init", arg |-> None, add_spin |-> FALSE,
           anti_symmetrize |-> FALSE, raised |-> FALSE]

Init ==
    /\ n \in 1..MaxN
    /\ l \in {2 * m : m \in 1..MaxM}
    /\ h = None
    /\ u = None
    /\ s = None
    /\ dipole_moment = None
    /\ nuclear_repulsion_energy = None
    /\ dtype = "real"
    /\ last = NoCall
    /\ pc = "idle"
    /\ loc = None

SetH(inputs) ==
    \E t \in inputs, add_spin \in BOOLEAN :
        LET r == set_h(l, h, t, add_spin)
        IN  /\ h' = r.value
            /\ last' = Call("set_h", t, add_spin, FALSE, r)
            /\ UNCHANGED <<n, l, u, s, dipole_moment, nuclear_repulsion_energy,
                           dtype, pc, loc>>

SetU(inputs) ==
    \E t \in inputs, add_spin \in BOOLEAN, anti_symmetrize \in BOOLEAN :
        LET r == set_u(l, u, t, add_spin, anti_symmetrize)
        IN  /\ u' = r.value
            /\ last' = Call("set_u", t, add_spin, anti_symmetrize, r)
            /\ UNCHANGED <<n, l, h, s, dipole_moment, nuclear_repulsion_energy,
                           dtype, pc, loc>>

\* set_s storing into _h
SetS_stores_h(inputs) ==
    \E t \in inputs, add_spin \in BOOLEAN :
        LET r == set_s(l, s, t, add_spin)
        IN  /\ h' = r.value
            /\ last' = Call("set_s", t, add_spin, FALSE, r)
            /\ UNCHANGED <<n, l, u, s, dipole_moment, nuclear_repulsion_energy,
                           dtype, pc, loc>>

SetS(inputs) ==
    \E t \in inputs, add_spin \in BOOLEAN :
        LET r == set_s(l, s, t, add_spin)
        IN  /\ s' = r.value
            /\ last' = Call("set_s", t, add_spin, FALSE, r)
            /\ UNCHANGED <<n, l, h, u, dipole_moment, nuclear_repulsion_energy,
                           dtype, pc, loc>>

SetDipoleMoment(inputs) ==
    \E t \in inputs, add_spin \in BOOLEAN :
        LET r == set_dipole_moment(l, dipole_moment, t, add_spin)
        IN  /\ dipole_moment' = r.value
            /\ last' = Call("set_dipole_moment", t, add_spin, FALSE, r)
            /\ UNCHANGED <<n, l, h, u, s, nuclear_repulsion_energy,
                           dtype, pc, loc>>

SetNuclearRepulsionEnergy ==
    \E e \in 0..MaxNre :
        LET r == set_nuclear_repulsion_energy(e)
        IN  /\ nuclear_repulsion_energy' = r.value
            /\ last' = Call("set_nuclear_repulsion_energy", [value |-> e],
                            FALSE, FALSE, r)
            /\ UNCHANGED <<n, l, h, u, s, dipole_moment, dtype, pc, loc>>

Next ==
    \/ SetH(OneBodyCubes)
    \/ SetU(TwoBodyCubes)
    \/ SetS(OneBodyCubes)
    \/ SetDipoleMoment(DipoleCubes)
    \/ SetNuclearRepulsionEnergy

Spec == Init /\ [][Next]_vars

\* The one- and two-body setters alone, on arguments of every shape.
NextTensors ==
    \/ SetH(OneBodyInputs)
    \/ SetU(TwoBodyInputs)
    \/ SetS(OneBodyInputs)

SpecTensors == Init /\ [][NextTensors]_vars

----------------------------------------------------------------------------
\* The claims about the setters.

\* shape of the tensor a one- or two-body setter checks: every axis doubled by
\* the spin expansion, none changed by the antisymmetrization
CheckedShape(c) ==
    IF c.add_spin
    THEN [k \in 1..Len(c.arg.shape) |-> 2 * c.arg.shape[k]]
    ELSE c.arg.shape

\* trailing axes of the dipole tensor a call results in
DipoleTrailing(c) ==
    LET m == IF Len(c.arg.shape) < 3 THEN c.arg.shape ELSE Tail(c.arg.shape)
    IN  IF c.add_spin THEN [k \in 1..Len(m) |-> 2 * m[k]] ELSE m

Mismatch(shape) == \E k \in 1..Len(shape) : shape[k] # l

\* C1: a set_h, set_u or set_s call whose resulting tensor has an axis
\* different from l raises and leaves the stored h, u and s as they were.
C1_ShapeErrorKeepsTensor ==
    [][(/\ last'.op \in {"set_h", "set_u", "set_s"}
        /\ Mismatch(CheckedShape(last')))
       => (last'.raised /\ h' = h /\ u' = u /\ s' = s)]_vars

\* a failed set_u with both flags on a system holding a previous u, and a
\* failed set_h on a system with no h
C1_Witness ==
    \/ /\ last.op = "set_u" /\ last.raised
       /\ last.add_spin /\ last.anti_symmetrize /\ IsSet(u)
       /\ Mismatch(CheckedShape(last))
    \/ /\ last.op = "set_h" /\ last.raised /\ ~IsSet(h) /\ IsSet(s)
       /\ Mismatch(CheckedShape(last))

\* C2: a set_dipole_moment call, with or without add_spin, whose resulting
\* tensor has a trailing axis different from l raises and leaves
\* dipole_moment as it was.
C2_DipoleShapeErrorKeepsTensor ==
    [][(/\ last'.op = "set_dipole_moment"
        /\ Mismatch(DipoleTrailing(last')))
       => (last'.raised /\ dipole_moment' = dipole_moment)]_vars

\* C3: h, u and s are absent or have every axis equal to l, and
\* dipole_moment is absent or has every axis after the first equal to l.
C3_StoredShapesMatchL ==
    /\ IsSet(h) => ~Mismatch(h.shape)
    /\ IsSet(u) => ~Mismatch(u.shape)
    /\ IsSet(s) => ~Mismatch(s.shape)
    /\ IsSet(dipole_moment) => ~Mismatch(Tail(dipole_moment.shape))

\* C4: set_u with add_spin and anti_symmetrize stores the antisymmetrization
\* of the spin-expanded argument, and checks the shape of that tensor.
C4_SpinThenAntisymmetrize ==
    (last.op = "set_u" /\ last.add_spin /\ last.anti_symmetrize)
    => /\ last.raised <=> Mismatch(CheckedShape(last))
       /\ ~last.raised => u = anti_symmetrize_u(add_spin_two_body(last.arg))

\* a successful call on which the two orders give different tensors
C4_Witness ==
    /\ last.op = "set_u" /\ last.add_spin /\ last.anti_symmetrize
    /\ ~last.raised
    /\ u # add_spin_two_body(anti_symmetrize_u(last.arg))

\* C5: the u stored by a successful set_u with anti_symmetrize satisfies
\* u[p,q,r,s] = -u[p,q,s,r] for all indices.
C5_StoredUAntisymmetric ==
    (last.op = "set_u" /\ last.anti_symmetrize /\ ~last.raised)
    => \A i \in DOMAIN u.data :
          u.data[i] = 0 - u.data[<<i[1], i[2], i[4], i[3]>>]

\* a stored antisymmetrized u with a nonzero element
C5_Witness ==
    /\ last.op = "set_u" /\ last.anti_symmetrize /\ ~last.raised
    /\ ~last.add_spin
    /\ \E i \in DOMAIN u.data : u.data[i] # 0

\* C6 as stated: antisymmetrizing the Scenario C tensor gives 5 at [0,0,1,1]
\* and 0 at [0,0,0,0].
C6_ScenarioC_AsStated ==
    (/\ last.op = "set_u" /\ last.arg = ScenarioC
     /\ last.anti_symmetrize /\ ~last.add_spin /\ ~last.raised)
    => (u.data[<<0, 0, 1, 1>>] = 5 /\ u.data[<<0, 0, 0, 0>>] = 0)

\* C6 amended: antisymmetrizing the Scenario C tensor gives 0 at [0,0,1,1]
\* (the element minus itself) and 0 at [0,0,0,0].
C6_ScenarioC ==
    (/\ last.op = "set_u" /\ last.arg = ScenarioC
     /\ last.anti_symmetrize /\ ~last.add_spin /\ ~last.raised)
    => (u.data[<<0, 0, 1, 1>>] = 0 /\ u.data[<<0, 0, 0, 0>>] = 0)

C6_Witness ==
    /\ last.op = "set_u" /\ last.arg = ScenarioC
    /\ last.anti_symmetrize /\ ~last.add_spin /\ ~last.raised
    /\ u # ScenarioC

\* C7: no setter call changes n or l, and each changes at most the
\* attribute it is named for.
C7_SetterFrame ==
    [][/\ n' = n
       /\ l' = l
       /\ h' # h => last'.op = "set_h"
       /\ u' # u => last'.op = "set_u"
       /\ s' # s => last'.op = "set_s"
       /\ dipole_moment' # dipole_moment => last'.op = "set_dipole_moment"
       /\ nuclear_repulsion_energy' # nuclear_repulsion_energy
            => last'.op = "set_nuclear_repulsion_energy"]_vars

\* a successful set_s on a system whose other attributes are all set
C7_Witness ==
    /\ last.op = "set_s" /\ ~last.raised
    /\ IsSet(h) /\ IsSet(u) /\ IsSet(s) /\ IsSet(dipole_moment)
    /\ nuclear_repulsion_energy # None

\* C8: set_dipole_moment promotes a (d, d) matrix to shape (1, d, d): with
\* d = l and no add_spin the stored tensor is (1, l, l) and holds the matrix;
\* with 2d = l and add_spin it is (1, l, l) and holds its spin expansion.
C8_DipolePromotion ==
    (/\ last.op = "set_dipole_moment"
     /\ Len(last.arg.shape) = 2
     /\ last.arg.shape[1] = last.arg.shape[2]
     /\ last.arg.shape[1] = (IF last.add_spin THEN l \div 2 ELSE l)
     /\ l % 2 = 0)
    => /\ ~last.raised
       /\ dipole_moment.shape = <<1, l, l>>
       /\ \A p \in 0..(l - 1), q \in 0..(l - 1) :
             dipole_moment.data[<<0, p, q>>] =
                IF last.add_spin
                THEN add_spin_one_body(last.arg).data[<<p, q>>]
                ELSE last.arg.data[<<p, q>>]

\* a promoted and spin-expanded matrix is stored
C8_Witness ==
    /\ last.op = "set_dipole_moment" /\ Len(last.arg.shape) = 2
    /\ last.add_spin /\ ~last.raised
    /\ dipole_moment.shape = <<1, l, l>>

----------------------------------------------------------------------------
\* Array operations the builders use.

RECURSIVE SumF(_, _)
\* f[0] + ... + f[k-1]
SumF(f, k) == IF k = 0 THEN 0 ELSE f[k - 1] + SumF(f, k - 1)

\* position of index tuple i in row-major order
RECURSIVE Flat(_, _)
Flat(i, shape) ==
    IF Len(i) = 0
    THEN 0
    ELSE Flat(SubSeq(i, 1, Len(i) - 1), SubSeq(shape, 1, Len(shape) - 1))
            * shape[Len(shape)] + i[Len(i)]

\* the index tuple at row-major position k
RECURSIVE Unflat(_, _)
Unflat(k, shape) ==
    IF Len(shape) = 0
    THEN <<>>
    ELSE Unflat(k \div shape[Len(shape)], SubSeq(shape, 1, Len(shape) - 1))
            \o <<k % shape[Len(shape)]>>

\* t.reshape(shape): the elements in row-major order, under the new shape
Reshape(t, shape) ==
    IF t.shape = shape
    THEN t
    ELSE [shape |-> shape,
          data |-> [i \in Idx(shape) |-> t.data[Unflat(Flat(i, shape), t.shape)]]]

\* a + b, elementwise
Add(a, b) ==
    [shape |-> a.shape, data |-> [i \in Idx(a.shape) |-> a.data[i] + b.data[i]]]

\* m[:, mask]: the columns of m whose mask entry is true, in order
SelectColumns(m, mask) ==
    LET Keep(j) == mask[j + 1]
        cols == SelectSeq([j \in 1..Len(mask) |-> j - 1], Keep)
        shape == <<m.shape[1], Len(cols)>>
    IN  [shape |-> shape,
         data |-> [i \in Idx(shape) |-> m.data[<<i[1], cols[i[2] + 1]>>]]]

\* np.hstack((a, b))
HStack(a, b) ==
    LET shape == <<a.shape[1], a.shape[2] + b.shape[2]>>
    IN  [shape |-> shape,
         data |-> [i \in Idx(shape) |->
                     IF i[2] < a.shape[2]
                     THEN a.data[i]
                     ELSE b.data[<<i[1], i[2] - a.shape[2]>>]]]

\* np.asarray(list of matrices), np.stack: a rank-3 array of the matrices
Stack(ms) ==
    LET shape == <<Len(ms)>> \o ms[1].shape
    IN  [shape |-> shape,
         data |-> [i \in Idx(shape) |-> ms[i[1] + 1].data[Tail(i)]]]

\* sum(mask)
Count(mask) == Cardinality({j \in 1..Len(mask) : mask[j]})

\* C^T . T . C
transform_one_body_elements(t, c) ==
    LET m == c.shape[1]
        shape == <<c.shape[2], c.shape[2]>>
    IN  [shape |-> shape,
         data |-> [i \in Idx(shape) |->
            SumF([a \in 0..(m - 1) |->
               SumF([b \in 0..(m - 1) |->
                  c.data[<<a, i[1]>>] * t.data[<<a, b>>] * c.data[<<b, i[2]>>]],
                  m)], m)]]

\* every one of the four legs contracted with C, index order kept
transform_two_body_elements(t, c) ==
    LET m == c.shape[1]
        k == c.shape[2]
        shape == <<k, k, k, k>>
    IN  [shape |-> shape,
         data |-> [i \in Idx(shape) |->
            SumF([a \in 0..(m - 1) |->
               SumF([b \in 0..(m - 1) |->
                  SumF([cc \in 0..(m - 1) |->
                     SumF([d \in 0..(m - 1) |->
                        c.data[<<a, i[1]>>] * c.data[<<b, i[2]>>]
                           * c.data[<<cc, i[3]>>] * c.data[<<d, i[4]>>]
                           * t.data[<<a, b, cc, d>>]],
                        m)], m)], m)], m)]]

----------------------------------------------------------------------------
\* What the integral packages return for a molecule with nao atomic orbitals.

\* t + c, elementwise
Shift(t, c) ==
    [shape |-> t.shape, data |-> [i \in Idx(t.shape) |-> t.data[i] + c]]

\* pyscf: the core Hamiltonian, the overlap, the two-electron integrals in
\* Mulliken notation, the dipole integrals and hf.mo_coeff, the coefficient
\* matrices of the two spin directions
PyscfIntegrals(nao) ==
    [get_hcore |-> Ramp(<<nao, nao>>),
     int1e_ovlp |-> Shift(Ramp(<<nao, nao>>), 2),
     int2e |-> Ramp(<<nao, nao, nao, nao>>),
     int1e_r |-> Ramp(<<NCart, nao, nao>>),
     mo_coeff |-> <<Ramp(<<nao, nao>>), Shift(Ramp(<<nao, nao>>), 1)>>]

\* psi4: kinetic and potential energy, two-electron integrals, overlap and
\* the list of NCart dipole matrices
Psi4Integrals(nao) ==
    [ao_kinetic |-> Ramp(<<nao, nao>>),
     ao_potential |-> Shift(Ramp(<<nao, nao>>), 1),
     ao_eri |-> Ramp(<<nao, nao, nao, nao>>),
     ao_overlap |-> Shift(Ramp(<<nao, nao>>), 2),
     ao_dipole |-> [k \in 1..NCart |->
                      Component(Ramp(<<NCart, nao, nao>>), k - 1)]]

\* hf.mo_occ of one spin direction: an occupation number 0 or 1 per orbital
Occupations(nao) == [1..nao -> {0, 1}]

----------------------------------------------------------------------------
\* The builders. loc holds the running builder's name, what the package
\* returned, and the builder's local variables.

Program(builder) ==
    CASE builder = "construct_pyscf_system_ao" ->
            <<"ao_integrals", "construct", "set_h", "set_s", "set_u",
              "set_dipole_moment", "cast_to_complex", "done">>
      [] builder = "construct_pyscf_system" ->
            <<"coefficients", "transform", "zero_cross_spin", "transpose",
              "construct", "set_h", "set_u", "set_dipole_moment",
              "cast_to_complex", "done">>
      [] builder = "construct_psi4_system" ->
            <<"psi4_integrals", "construct", "set_h", "set_u", "set_s",
              "set_dipole_moment", "set_nuclear_repulsion_energy", "done">>

\* the step after `step` in the builder's program
After(builder, step) ==
    LET prog == Program(builder)
    IN  prog[1 + CHOOSE k \in 1..Len(prog) : prog[k] = step]

\* the add_spin argument the builder passes to the setters
PassesAddSpin(builder) == builder # "construct_pyscf_system"

Locals(builder, nao) ==
    [builder |-> builder, nao |-> nao,
     pkg |-> IF builder = "construct_psi4_system"
             THEN Psi4Integrals(nao) ELSE PyscfIntegrals(nao),
     nelectron |-> 0, nalpha |-> 0,
     nbeta |-> 0, mo_occ |-> <<>>, energy |-> 0,
     C |-> None, n |-> 0, l |-> 0, h |-> None, s |-> None, u |-> None,
     dipole_moment |-> None]

InitBuild ==
    /\ n = 0
    /\ l = 0
    /\ h = None
    /\ u = None
    /\ s = None
    /\ dipole_moment = None
    /\ nuclear_repulsion_energy = None
    /\ dtype = "real"
    /\ last = NoCall
    /\ \E nao \in 1..MaxNao :
          \/ \E ne \in 1..(2 * nao) :
                /\ loc = [Locals("construct_pyscf_system_ao", nao)
                            EXCEPT !.nelectron = ne]
                /\ pc = "ao_integrals"
          \/ \E oa \in Occupations(nao), ob \in Occupations(nao) :
                /\ loc = [Locals("construct_pyscf_system", nao)
                            EXCEPT !.mo_occ = <<oa, ob>>]
                /\ pc = "coefficients"
          \/ \E na \in 0..nao, nb \in 0..nao, e \in 0..MaxNre :
                /\ loc = [Locals("construct_psi4_system", nao)
                            EXCEPT !.nalpha = na, !.nbeta = nb, !.energy = e]
                /\ pc = "psi4_integrals"

\* construct_pyscf_system_ao: n, l and the integrals
AoLocals ==
    /\ pc = "ao_integrals"
    /\ LET ll == loc.nao * 2
           m == ll \div 2
       IN  loc' = [loc EXCEPT
                     !.n = loc.nelectron,
                     !.l = ll,
                     !.h = loc.pkg.get_hcore,
                     !.s = loc.pkg.int1e_ovlp,
                     !.u = Transpose0213(Reshape(loc.pkg.int2e, <<m, m, m, m>>)),
                     !.dipole_moment = Reshape(loc.pkg.int1e_r, <<NCart, m, m>>)]
    /\ pc' = After(loc.builder, pc)
    /\ UNCHANGED <<n, l, h, u, s, dipole_moment, nuclear_repulsion_energy,
                   dtype, last>>

\* construct_psi4_system: n, l and the integrals
Psi4Locals ==
    /\ pc = "psi4_integrals"
    /\ loc' = [loc EXCEPT
                 !.h = Add(loc.pkg.ao_kinetic, loc.pkg.ao_potential),
                 !.u = Transpose0213(loc.pkg.ao_eri),
                 !.s = loc.pkg.ao_overlap,
                 !.n = loc.nalpha + loc.nbeta,
                 !.l = 2 * loc.nao,
                 !.dipole_moment = Stack(loc.pkg.ao_dipole)]
    /\ pc' = After(loc.builder, pc)
    /\ UNCHANGED <<n, l, h, u, s, dipole_moment, nuclear_repulsion_energy,
                   dtype, last>>

\* construct_pyscf_system: the coefficient matrix C = (C_o, C_v), n and l
PyscfCoefficients ==
    /\ pc = "coefficients"
    /\ LET occ(k) == [j \in 1..loc.nao |-> loc.mo_occ[k][j] > 0]
           virt(k) == [j \in 1..loc.nao |-> loc.mo_occ[k][j] = 0]
           mo == loc.pkg.mo_coeff
           C_o == HStack(SelectColumns(mo[1], occ(1)), SelectColumns(mo[2], occ(2)))
           C_v == HStack(SelectColumns(mo[1], virt(1)), SelectColumns(mo[2], virt(2)))
           C == HStack(C_o, C_v)
           nn == C_o.shape[2]
           ll == C.shape[2]
       IN  /\ loc' = [loc EXCEPT !.C = C, !.n = nn, !.l = ll]
           /\ pc' = IF /\ nn = Count(occ(1)) + Count(occ(2))
                       /\ ll = C.shape[1] * 2
                    THEN After(loc.builder, pc)
                    ELSE "raised"
    /\ UNCHANGED <<n, l, h, u, s, dipole_moment, nuclear_repulsion_energy,
                   dtype, last>>

\* construct_pyscf_system: the integrals in the basis of C
PyscfTransform ==
    /\ pc = "transform"
    /\ LET r == Reshape(loc.pkg.int1e_r, <<NCart, loc.nao, loc.nao>>)
           u_shape == <<loc.nao, loc.nao, loc.nao, loc.nao>>
       IN  loc' = [loc EXCEPT
                     !.dipole_moment =
                        Stack([k \in 1..NCart |->
                           Negate(transform_one_body_elements(
                              Component(r, k - 1), loc.C))]),
                     !.h = transform_one_body_elements(loc.pkg.get_hcore, loc.C),
                     !.u = transform_two_body_elements(
                              Reshape(loc.pkg.int2e, u_shape), loc.C)]
    /\ pc' = After(loc.builder, pc)
    /\ UNCHANGED <<n, l, h, u, s, dipole_moment, nuclear_repulsion_energy,
                   dtype, last>>

\* slice(a, b)
Slice(a, b) == a..(b - 1)

\* zero_slices with the (a, b) pairs only
zero_slices_one_direction(noa, nva, nob, nvb) ==
    LET no == noa + nob
        nv == nva + nvb
        a_slices == {Slice(0, noa), Slice(no, no + nva)}
        b_slices == {Slice(noa, no), Slice(no + nva, no + nv)}
    IN  {<<a, b>> : a \in a_slices, b \in b_slices}

\* the pairs of slices that mix the two spin directions
zero_slices(noa, nva, nob, nvb) ==
    LET no == noa + nob
        nv == nva + nvb
        a_slices == {Slice(0, noa), Slice(no, no + nva)}
        b_slices == {Slice(noa, no), Slice(no + nva, no + nv)}
    IN  {<<a, b>> : a \in a_slices, b \in b_slices}
            \cup {<<b, a>> : a \in a_slices, b \in b_slices}

InSlices(zs, p, q) == \E sl \in zs : p \in sl[1] /\ q \in sl[2]

\* construct_pyscf_system: the cross-spin terms of h, dipole_moment and u
\* (in Mulliken notation) set to zero
PyscfZeroCrossSpin ==
    /\ pc = "zero_cross_spin"
    /\ LET noa == Count([j \in 1..loc.nao |-> loc.mo_occ[1][j] > 0])
           nva == Count([j \in 1..loc.nao |-> loc.mo_occ[1][j] = 0])
           nob == Count([j \in 1..loc.nao |-> loc.mo_occ[2][j] > 0])
           nvb == Count([j \in 1..loc.nao |-> loc.mo_occ[2][j] = 0])
           zs == zero_slices(noa, nva, nob, nvb)
       IN  loc' = [loc EXCEPT
              !.h = [shape |-> loc.h.shape,
                     data |-> [i \in Idx(loc.h.shape) |->
                        IF InSlices(zs, i[1], i[2]) THEN 0 ELSE loc.h.data[i]]],
              !.dipole_moment =
                    [shape |-> loc.dipole_moment.shape,
                     data |-> [i \in Idx(loc.dipole_moment.shape) |->
                        IF InSlices(zs, i[2], i[3])
                        THEN 0 ELSE loc.dipole_moment.data[i]]],
              !.u = [shape |-> loc.u.shape,
                     data |-> [i \in Idx(loc.u.shape) |->
                        IF InSlices(zs, i[1], i[2]) \/ InSlices(zs, i[3], i[4])
                        THEN 0 ELSE loc.u.data[i]]]]
    /\ pc' = After(loc.builder, pc)
    /\ UNCHANGED <<n, l, h, u, s, dipole_moment, nuclear_repulsion_energy,
                   dtype, last>>

\* the conversion to physicist's notation left out
PyscfTranspose_skipped ==
    /\ pc = "transpose"
    /\ pc' = After(loc.builder, pc)
    /\ UNCHANGED <<n, l, h, u, s, dipole_moment, nuclear_repulsion_energy,
                   dtype, last, loc>>

\* construct_pyscf_system: from Mulliken to physicist's notation
PyscfTranspose ==
    /\ pc = "transpose"
    /\ loc' = [loc EXCEPT !.u = Transpose0213(loc.u)]
    /\ pc' = After(loc.builder, pc)
    /\ UNCHANGED <<n, l, h, u, s, dipole_moment, nuclear_repulsion_energy,
                   dtype, last>>

\* system = CustomSystem(n, l, np=np)
Construct ==
    /\ pc = "construct"
    /\ n' = loc.n
    /\ l' = loc.l
    /\ h' = None
    /\ u' = None
    /\ s' = None
    /\ dipole_moment' = None
    /\ nuclear_repulsion_energy' = None
    /\ dtype' = "real"
    /\ pc' = After(loc.builder, pc)
    /\ UNCHANGED <<last, loc>>

BuildSetH ==
    /\ pc = "set_h"
    /\ LET r == set_h(l, h, loc.h, PassesAddSpin(loc.builder))
       IN  /\ h' = r.value
           /\ last' = Call("set_h", loc.h, PassesAddSpin(loc.builder), FALSE, r)
           /\ pc' = IF r.raised THEN "raised" ELSE After(loc.builder, pc)
    /\ UNCHANGED <<n, l, u, s, dipole_moment, nuclear_repulsion_energy,
                   dtype, loc>>

BuildSetS ==
    /\ pc = "set_s"
    /\ LET r == set_s(l, s, loc.s, TRUE)
       IN  /\ s' = r.value
           /\ last' = Call("set_s", loc.s, TRUE, FALSE, r)
           /\ pc' = IF r.raised THEN "raised" ELSE After(loc.builder, pc)
    /\ UNCHANGED <<n, l, h, u, dipole_moment, nuclear_repulsion_energy,
                   dtype, loc>>

BuildSetU ==
    /\ pc = "set_u"
    /\ LET r == set_u(l, u, loc.u, PassesAddSpin(loc.builder), TRUE)
       IN  /\ u' = r.value
           /\ last' = Call("set_u", loc.u, PassesAddSpin(loc.builder), TRUE, r)
           /\ pc' = IF r.raised THEN "raised" ELSE After(loc.builder, pc)
    /\ UNCHANGED <<n, l, h, s, dipole_moment, nuclear_repulsion_energy,
                   dtype, loc>>

BuildSetDipoleMoment ==
    /\ pc = "set_dipole_moment"
    /\ LET r == set_dipole_moment(l, dipole_moment, loc.dipole_moment,
                                  PassesAddSpin(loc.builder))
       IN  /\ dipole_moment' = r.value
           /\ last' = Call("set_dipole_moment", loc.dipole_moment,
                           PassesAddSpin(loc.builder), FALSE, r)
           /\ pc' = IF r.raised THEN "raised" ELSE After(loc.builder, pc)
    /\ UNCHANGED <<n, l, h, u, s, nuclear_repulsion_energy, dtype, loc>>

BuildSetNuclearRepulsionEnergy ==
    /\ pc = "set_nuclear_repulsion_energy"
    /\ LET r == set_nuclear_repulsion_energy(loc.energy)
       IN  /\ nuclear_repulsion_energy' = r.value
           /\ last' = Call("set_nuclear_repulsion_energy",
                           [value |-> loc.energy], FALSE, FALSE, r)
    /\ pc' = After(loc.builder, pc)
    /\ UNCHANGED <<n, l, h, u, s, dipole_moment, dtype, loc>>

\* system.cast_to_complex(): the stored tensors keep their values as
\* complex numbers
CastToComplex ==
    /\ pc = "cast_to_complex"
    /\ dtype' = "complex"
    /\ pc' = After(loc.builder, pc)
    /\ UNCHANGED <<n, l, h, u, s, dipole_moment, nuclear_repulsion_energy,
                   last, loc>>

NextBuild ==
    \/ AoLocals
    \/ Psi4Locals
    \/ PyscfCoefficients
    \/ PyscfTransform
    \/ PyscfZeroCrossSpin
    \/ PyscfTranspose
    \/ Construct
    \/ BuildSetH
    \/ BuildSetS
    \/ BuildSetU
    \/ BuildSetDipoleMoment
    \/ BuildSetNuclearRepulsionEnergy
    \/ CastToComplex

SpecBuild == InitBuild /\ [][NextBuild]_vars

----------------------------------------------------------------------------
\* The claims about the builders.

\* number of orbitals of spin direction k with (occ = 1) or without (occ = 0)
\* an electron
NumOrbitals(k, occ) ==
    Cardinality({j \in 1..loc.nao : loc.mo_occ[k][j] = occ})

\* spin channel of molecular orbital p, with the orbitals ordered
\* occupied-alpha, occupied-beta, virtual-alpha, virtual-beta
Channel(p) ==
    LET noa == NumOrbitals(1, 1)
        no == noa + NumOrbitals(2, 1)
        nva == NumOrbitals(1, 0)
    IN  IF p < noa \/ (no <= p /\ p < no + nva) THEN "alpha" ELSE "beta"

\* the integrals of construct_pyscf_system in the basis of C, in the
\* notation of the package
TransformedH == transform_one_body_elements(loc.pkg.get_hcore, loc.C)
TransformedDipole(k) ==
    transform_one_body_elements(Component(loc.pkg.int1e_r, k), loc.C)
TransformedU == transform_two_body_elements(loc.pkg.int2e, loc.C)

\* C9: the h, dipole_moment and u (physicist's notation) that
\* construct_pyscf_system hands to the setters are zero where the indices of
\* a particle lie in different spin channels and equal to the
\* basis-transformed value elsewhere.
C9_CrossSpinZeroed ==
    /\ (loc.builder = "construct_pyscf_system" /\ pc = "construct")
       => /\ \A i \in DOMAIN loc.h.data :
                loc.h.data[i] =
                   IF Channel(i[1]) = Channel(i[2])
                   THEN TransformedH.data[i] ELSE 0
          /\ \A i \in DOMAIN loc.dipole_moment.data :
                loc.dipole_moment.data[i] =
                   IF Channel(i[2]) = Channel(i[3])
                   THEN 0 - TransformedDipole(i[1]).data[<<i[2], i[3]>>]
                   ELSE 0
          /\ \A i \in DOMAIN loc.u.data :
                loc.u.data[i] =
                   IF Channel(i[1]) = Channel(i[3]) /\ Channel(i[2]) = Channel(i[4])
                   THEN TransformedU.data[<<i[1], i[3], i[2], i[4]>>]
                   ELSE 0
    /\ (loc.builder = "construct_pyscf_system" /\ ~last.raised)
       => /\ last.op = "set_h" => last.arg = loc.h
          /\ last.op = "set_u" => last.arg = loc.u
          /\ last.op = "set_dipole_moment" => last.arg = loc.dipole_moment

\* all four blocks of orbitals are there, and a cross-spin element of h that
\* the basis transformation left nonzero was zeroed
C9_Witness ==
    /\ loc.builder = "construct_pyscf_system" /\ pc = "set_u"
    /\ \A k \in {1, 2}, occ \in {0, 1} : NumOrbitals(k, occ) > 0
    /\ \E i \in DOMAIN loc.h.data :
          TransformedH.data[i] # 0 /\ h.data[i] = 0

\* the two-body tensor in physicist's notation that the builder is to
\* antisymmetrize
PhysicistU ==
    CASE loc.builder = "construct_pyscf_system_ao" ->
            add_spin_two_body(Transpose0213(loc.pkg.int2e))
      [] loc.builder = "construct_psi4_system" ->
            add_spin_two_body(Transpose0213(loc.pkg.ao_eri))
      [] loc.builder = "construct_pyscf_system" ->
            [shape |-> <<loc.l, loc.l, loc.l, loc.l>>,
             data |-> [i \in Idx(<<loc.l, loc.l, loc.l, loc.l>>) |->
                IF Channel(i[1]) = Channel(i[3]) /\ Channel(i[2]) = Channel(i[4])
                THEN TransformedU.data[<<i[1], i[3], i[2], i[4]>>]
                ELSE 0]]

\* C10: every builder ends with u the antisymmetrization, applied once, of
\* the transposed (0,2,1,3) two-body integrals after their spin expansion
\* (construct_pyscf_system_ao, construct_psi4_system) or their basis
\* transformation and cross-spin zeroing (construct_pyscf_system).
C10_AntisymmetrizedOnceLast ==
    /\ pc # "raised"
    /\ pc = "done"
       => \A i \in DOMAIN u.data :
             u.data[i] =
                PhysicistU.data[i] - PhysicistU.data[<<i[1], i[2], i[4], i[3]>>]

\* construct_pyscf_system has ended, with all four blocks of orbitals there
\* and a nonzero u
C10_Witness ==
    /\ pc = "done"
    /\ loc.builder = "construct_pyscf_system"
    /\ \A k \in {1, 2}, occ \in {0, 1} : NumOrbitals(k, occ) > 0
    /\ \E i \in DOMAIN u.data : u.data[i] # 0

====
